---- MODULE Spec2Model ----
(***************************************************************************)
(* A model of src/src/stable.rs: the fallback lexer of proc-macro2         *)
(* (TokenStream::from_str and its scanners), the renderer (Display for     *)
(* TokenStream), the Literal constructors and the thread-local symbol      *)
(* interner.                                                               *)
(*                                                                         *)
(* A Rust &str is a sequence of bytes.  An ASCII byte is the one-character *)
(* string of its character; the bytes of the two-byte character U+00E9     *)
(* are "xC3" (lead) and "xA9" (continuation).  Offsets are 0-based byte    *)
(* offsets, as in Rust.  A scanner returns a PResult: Ok(rest, value),     *)
(* Err (LexError) or Panic (a slice taken off a character boundary).       *)
(***************************************************************************)
EXTENDS Integers, Sequences, FiniteSets, TLC

VARIABLES
    src,        \* the text handed to from_str, or written by Display
    result,     \* the outcome of from_str(src): st, and the stream when Ok
    built,      \* the TokenStream that was rendered into src (<<>> if none)
    pc,         \* "text": src awaits from_str; "stream": result awaits Display
    interners,  \* per thread: its SYMBOLS, an Interner
    terms,      \* every Term handed out: [thread, string, intern]
    last        \* the last call of Term::from: its Term, and whether it pushed

vars == <<src, result, built, pc, interners, terms, last>>

(***************************************************************************)
(* Bytes and characters                                                    *)
(***************************************************************************)
Lower == {"a", "b", "c", "d", "e", "f", "g", "h", "i", "j", "k", "l", "m",
          "n", "o", "p", "q", "r", "s", "t", "u", "v", "w", "x", "y", "z"}
Upper == {"A", "B", "C", "D", "E", "F", "S", "X"}
Digit == {"0", "1", "2", "3", "4", "5", "6", "7", "8", "9"}
HexDigit == Digit \cup {"a", "b", "c", "d", "e", "f", "A", "B", "C", "D", "E", "F"}
LeadBytes == {"xC3"}
ContBytes == {"xA9"}
EAcute == <<"xC3", "xA9">>

Slice(s, a) == SubSeq(s, a + 1, Len(s))
Prefix(s, n) == SubSeq(s, 1, n)
starts_with(s, p) == Len(s) >= Len(p) /\ SubSeq(s, 1, Len(p)) = p
is_char_boundary(s, i) ==
    i = 0 \/ i = Len(s) \/ (i < Len(s) /\ s[i + 1] \notin ContBytes)

\* the character that starts at byte offset i, and its len_utf8
CharAt(s, i) == IF s[i + 1] \in LeadBytes THEN "U+00E9" ELSE s[i + 1]
CharWidth(s, i) == IF s[i + 1] \in LeadBytes THEN 2 ELSE 1

is_xid_start(ch) == ch \in Lower \cup Upper \cup {"U+00E9"}
is_xid_continue(ch) == ch \in Lower \cup Upper \cup Digit \cup {"_", "U+00E9"}
is_whitespace(ch) == ch \in {" ", "\t", "\n", "\r"}

\* str::find of a one-byte pattern: its byte offset, or -1
RECURSIVE find_from(_, _, _)
find_from(s, b, i) ==
    IF i >= Len(s) THEN -1
    ELSE IF s[i + 1] = b THEN i
    ELSE find_from(s, b, i + 1)
find(s, b) == find_from(s, b, 0)

(***************************************************************************)
(* PResult                                                                 *)
(***************************************************************************)
Ok(rest, val) == [st |-> "Ok", rest |-> rest, val |-> val]
Err == [st |-> "Err"]
Panic == [st |-> "Panic"]
Unit == <<>>

\* let v = ...; f(v): v is evaluated once
With(v, f(_)) == f(v)
\* the sequencing of do_parse!, delimited! and preceded!: a must succeed
AndThen(a, f(_)) == IF a.st # "Ok" THEN a ELSE f(a)
\* alt!: the next alternative is tried when a fails
OrElse(a, b) == IF a.st # "Err" THEN a ELSE b

(***************************************************************************)
(* strnom: whitespace, comments, word breaks and the tag combinators       *)
(***************************************************************************)
RECURSIVE block_comment_loop(_, _, _)
block_comment_loop(input, i, depth) ==
    IF i >= Len(input) - 1 THEN Err
    ELSE IF input[i + 1] = "/" /\ input[i + 2] = "*"
    THEN block_comment_loop(input, i + 2, depth + 1)
    ELSE IF input[i + 1] = "*" /\ input[i + 2] = "/"
    THEN IF depth - 1 = 0
         THEN Ok(Slice(input, i + 2), Prefix(input, i + 2))
         ELSE block_comment_loop(input, i + 2, depth - 1)
    ELSE block_comment_loop(input, i + 1, depth)

block_comment(input) ==
    IF ~starts_with(input, <<"/", "*">>) THEN Err
    ELSE block_comment_loop(input, 0, 0)

is_line_comment(s) ==
    /\ starts_with(s, <<"/", "/">>)
    /\ (~starts_with(s, <<"/", "/", "/">>) \/ starts_with(s, <<"/", "/", "/", "/">>))
    /\ ~starts_with(s, <<"/", "/", "!">>)

is_block_comment(s) ==
    /\ starts_with(s, <<"/", "*">>)
    /\ (~starts_with(s, <<"/", "*", "*">>) \/ starts_with(s, <<"/", "*", "*", "*">>))
    /\ ~starts_with(s, <<"/", "*", "!">>)

RECURSIVE whitespace_loop(_, _)
whitespace_loop(input, i) ==
    IF i >= Len(input) THEN Ok(<<>>, Unit)
    ELSE With(Slice(input, i), LAMBDA s :
         IF is_line_comment(s)
         THEN With(find(s, "\n"), LAMBDA len :
              IF len >= 0 THEN whitespace_loop(input, i + len + 1)
              ELSE Ok(<<>>, Unit))
         ELSE IF is_block_comment(s)
         THEN With(block_comment(s), LAMBDA com :
              IF com.st = "Ok" THEN whitespace_loop(input, i + Len(com.val))
              ELSE Err)
         ELSE IF is_whitespace(CharAt(input, i))
         THEN whitespace_loop(input, i + CharWidth(input, i))
         ELSE IF i > 0 THEN Ok(s, Unit) ELSE Err)

whitespace(input) ==
    IF input = <<>> THEN Err ELSE whitespace_loop(input, 0)

skip_whitespace(input) ==
    With(whitespace(input), LAMBDA r : IF r.st = "Ok" THEN r.rest ELSE input)

word_break(input) ==
    IF input # <<>> /\ is_xid_continue(CharAt(input, 0)) THEN Err
    ELSE Ok(input, Unit)

tag(input, token) ==
    IF starts_with(input, token) THEN Ok(Slice(input, Len(token)), token)
    ELSE Err

punct(input, token) == tag(skip_whitespace(input), token)

keyword(input, token) ==
    AndThen(punct(input, token), LAMBDA r :
        IF word_break(r.rest).st = "Ok" THEN r ELSE Err)

\* take_until!("\n"): everything before the first newline; fails without one
take_until_newline(input) ==
    With(find(input, "\n"), LAMBDA offset :
        IF offset >= 0 THEN Ok(Slice(input, offset), Prefix(input, offset))
        ELSE Err)

(***************************************************************************)
(* Escape decoders over an iterator position: the offset after the escape, *)
(* or -1 where the Rust function returns false                             *)
(***************************************************************************)
InRange(s, i) == i < Len(s)

backslash_x_char(s, i) ==
    IF InRange(s, i) /\ CharAt(s, i) \in {"0", "1", "2", "3", "4", "5", "6", "7"}
    THEN IF InRange(s, i + 1) /\ CharAt(s, i + 1) \in HexDigit THEN i + 2 ELSE -1
    ELSE -1

backslash_x_byte(s, i) ==
    IF InRange(s, i) /\ s[i + 1] \in HexDigit
    THEN IF InRange(s, i + 1) /\ s[i + 2] \in HexDigit THEN i + 2 ELSE -1
    ELSE -1

\* n hex digits have been read; the next is a digit (at most 6) or the brace
RECURSIVE backslash_u_loop(_, _, _)
backslash_u_loop(s, i, n) ==
    IF ~InRange(s, i) THEN -1
    ELSE IF CharAt(s, i) = "}" THEN i + 1
    ELSE IF n < 6 /\ CharAt(s, i) \in HexDigit THEN backslash_u_loop(s, i + 1, n + 1)
    ELSE -1

backslash_u(s, i) ==
    IF InRange(s, i) /\ CharAt(s, i) = "{" /\ InRange(s, i + 1)
       /\ CharAt(s, i + 1) \in HexDigit
    THEN backslash_u_loop(s, i + 2, 1)
    ELSE -1

SimpleEscapes == {"n", "r", "t", "\\", "'", "\"", "0"}

(***************************************************************************)
(* String, byte string, raw string, byte and char literals                 *)
(***************************************************************************)
\* the offset of the first non-whitespace character at or after i
RECURSIVE skip_whitespace_chars(_, _)
skip_whitespace_chars(s, i) ==
    IF InRange(s, i) /\ is_whitespace(CharAt(s, i))
    THEN skip_whitespace_chars(s, i + CharWidth(s, i))
    ELSE i

RECURSIVE cooked_string_loop(_, _)
cooked_string_loop(input, i) ==
    IF ~InRange(input, i) THEN Err
    ELSE LET ch == CharAt(input, i)
             j == i + CharWidth(input, i)
         IN
         IF ch = "\"" THEN Ok(Slice(input, i), Unit)
         ELSE IF ch = "\r"
         THEN IF InRange(input, j) /\ CharAt(input, j) = "\n"
              THEN cooked_string_loop(input, j + 1)
              ELSE Err
         ELSE IF ch = "\\"
         THEN IF ~InRange(input, j) THEN Err
              ELSE LET c2 == CharAt(input, j)
                       k == j + CharWidth(input, j)
                   IN
                   IF c2 = "x"
                   THEN With(backslash_x_char(input, k), LAMBDA n :
                        IF n < 0 THEN Err ELSE cooked_string_loop(input, n))
                   ELSE IF c2 \in SimpleEscapes THEN cooked_string_loop(input, k)
                   ELSE IF c2 = "u"
                   THEN With(backslash_u(input, k), LAMBDA n :
                        IF n < 0 THEN Err ELSE cooked_string_loop(input, n))
                   ELSE IF c2 \in {"\n", "\r"}
                   THEN cooked_string_loop(input, skip_whitespace_chars(input, k))
                   ELSE Err
         ELSE cooked_string_loop(input, j)

cooked_string(input) == cooked_string_loop(input, 0)

quoted_string(input) ==
    AndThen(punct(input, <<"\"">>), LAMBDA a :
    AndThen(cooked_string(a.rest), LAMBDA b :
    AndThen(tag(b.rest, <<"\"">>), LAMBDA c : Ok(c.rest, Unit))))

\* the first loop: the offset n of the opening quote, or -1
RECURSIVE raw_string_open(_, _)
raw_string_open(input, i) ==
    IF ~InRange(input, i) THEN -1
    ELSE IF CharAt(input, i) = "\"" THEN i
    ELSE IF CharAt(input, i) = "#" THEN raw_string_open(input, i + 1)
    ELSE -1

RECURSIVE raw_string_close(_, _, _)
raw_string_close(input, n, i) ==
    IF ~InRange(input, i) THEN Err
    ELSE IF CharAt(input, i) = "\"" /\ starts_with(Slice(input, i + 1), Prefix(input, n))
    THEN Ok(Slice(input, i + 1 + n), Unit)
    ELSE raw_string_close(input, n, i + CharWidth(input, i))

\* the second loop closing at the first quote, whatever follows it
RECURSIVE raw_string_close_any(_, _)
raw_string_close_any(input, i) ==
    IF ~InRange(input, i) THEN Err
    ELSE IF CharAt(input, i) = "\"" THEN Ok(Slice(input, i + 1), Unit)
    ELSE raw_string_close_any(input, i + CharWidth(input, i))

\* raw_string that does not compare the pounds after the closing quote
raw_string_any_close(input) ==
    With(raw_string_open(input, 0), LAMBDA n :
        IF n < 0 THEN Err ELSE raw_string_close_any(input, n + 1))

raw_string(input) ==
    With(raw_string_open(input, 0), LAMBDA n :
        IF n < 0 THEN Err ELSE raw_string_close(input, n, n + 1))

string(input) ==
    OrElse(quoted_string(input),
           AndThen(punct(input, <<"r">>), LAMBDA r : raw_string(r.rest)))

RECURSIVE cooked_byte_string(_)
RECURSIVE cooked_byte_string_loop(_, _)
cooked_byte_string_loop(input, i) ==
    IF ~InRange(input, i) THEN Err
    ELSE LET b == input[i + 1] IN
         IF b = "\"" THEN Ok(Slice(input, i), Unit)
         ELSE IF b = "\r"
         THEN IF InRange(input, i + 1) /\ input[i + 2] = "\n"
              THEN cooked_byte_string_loop(input, i + 2)
              ELSE Err
         ELSE IF b = "\\"
         THEN IF ~InRange(input, i + 1) THEN Err
              ELSE LET b2 == input[i + 2] IN
                   IF b2 = "x"
                   THEN With(backslash_x_byte(input, i + 2), LAMBDA n :
                        IF n < 0 THEN Err ELSE cooked_byte_string_loop(input, n))
                   ELSE IF b2 \in SimpleEscapes THEN cooked_byte_string_loop(input, i + 2)
                   ELSE IF b2 \in {"\n", "\r"}
                   THEN With(Slice(input, i + 2), LAMBDA rest :
                        With(skip_whitespace_chars(rest, 0), LAMBDA offset :
                        IF InRange(rest, offset)
                        THEN cooked_byte_string(Slice(rest, offset))
                        ELSE Err))
                   ELSE Err
         ELSE IF b \notin LeadBytes \cup ContBytes THEN cooked_byte_string_loop(input, i + 1)
         ELSE Err

cooked_byte_string(input) == cooked_byte_string_loop(input, 0)

byte_string(input) ==
    OrElse(AndThen(punct(input, <<"b", "\"">>), LAMBDA a :
           AndThen(cooked_byte_string(a.rest), LAMBDA b :
           AndThen(tag(b.rest, <<"\"">>), LAMBDA c : Ok(c.rest, Unit)))),
           AndThen(punct(input, <<"b", "r">>), LAMBDA r : raw_string(r.rest)))

\* the position of the bytes iterator after the byte or escape, or -1
cooked_byte_ok(input) ==
    IF ~InRange(input, 0) THEN -1
    ELSE IF input[1] = "\\"
    THEN IF ~InRange(input, 1) THEN -1
         ELSE IF input[2] = "x" THEN backslash_x_byte(input, 2)
         ELSE IF input[2] \in SimpleEscapes THEN 2
         ELSE -1
    ELSE 1

cooked_byte(input) ==
    With(cooked_byte_ok(input), LAMBDA offset :
        IF offset < 0 THEN Err
        ELSE IF ~InRange(input, offset) THEN Ok(<<>>, Unit)
        ELSE IF is_char_boundary(input, offset) THEN Ok(Slice(input, offset), Unit)
        ELSE Panic)

byte(input) ==
    AndThen(punct(input, <<"b">>), LAMBDA a :
    AndThen(tag(a.rest, <<"'">>), LAMBDA b :
    AndThen(cooked_byte(b.rest), LAMBDA c :
    AndThen(tag(c.rest, <<"'">>), LAMBDA d : Ok(d.rest, Unit)))))

\* the position of the chars iterator after the character or escape, or -1
cooked_char_ok(input) ==
    IF ~InRange(input, 0) THEN -1
    ELSE IF CharAt(input, 0) = "\\"
    THEN IF ~InRange(input, 1) THEN -1
         ELSE LET c2 == CharAt(input, 1)
                  k == 1 + CharWidth(input, 1)
              IN
              IF c2 = "x" THEN backslash_x_char(input, k)
              ELSE IF c2 = "u" THEN backslash_u(input, k)
              ELSE IF c2 \in SimpleEscapes THEN k
              ELSE -1
    ELSE CharWidth(input, 0)

cooked_char(input) ==
    With(cooked_char_ok(input), LAMBDA offset :
        IF offset < 0 THEN Err ELSE Ok(Slice(input, offset), Unit))

character(input) ==
    AndThen(punct(input, <<"'">>), LAMBDA a :
    AndThen(cooked_char(a.rest), LAMBDA c :
    AndThen(tag(c.rest, <<"'">>), LAMBDA d : Ok(d.rest, Unit))))

(***************************************************************************)
(* Numbers and booleans                                                    *)
(***************************************************************************)
\* the main loop of float_digits, from len characters read
RECURSIVE float_digits_loop(_, _, _)
float_digits_loop(input, len, has_dot) ==
    IF ~InRange(input, len)
    THEN [err |-> FALSE, len |-> len, has_dot |-> has_dot, has_exp |-> FALSE]
    ELSE LET ch == CharAt(input, len) IN
         IF ch \in Digit \cup {"_"} THEN float_digits_loop(input, len + 1, has_dot)
         ELSE IF ch = "."
         THEN IF has_dot
              THEN [err |-> FALSE, len |-> len, has_dot |-> has_dot, has_exp |-> FALSE]
              ELSE IF InRange(input, len + 1)
                      /\ (CharAt(input, len + 1) = "."
                          \/ is_xid_start(CharAt(input, len + 1)))
              THEN [err |-> TRUE, len |-> len, has_dot |-> has_dot, has_exp |-> FALSE]
              ELSE float_digits_loop(input, len + 1, TRUE)
         ELSE IF ch \in {"e", "E"}
         THEN [err |-> FALSE, len |-> len + 1, has_dot |-> has_dot, has_exp |-> TRUE]
         ELSE [err |-> FALSE, len |-> len, has_dot |-> has_dot, has_exp |-> FALSE]

\* the exponent loop of float_digits
RECURSIVE float_exp_loop(_, _, _)
float_exp_loop(input, len, has_exp_value) ==
    IF ~InRange(input, len) THEN [len |-> len, has_exp_value |-> has_exp_value]
    ELSE LET ch == CharAt(input, len) IN
         IF ch \in {"+", "-"}
         THEN IF has_exp_value THEN [len |-> len, has_exp_value |-> has_exp_value]
              ELSE float_exp_loop(input, len + 1, has_exp_value)
         ELSE IF ch \in Digit THEN float_exp_loop(input, len + 1, TRUE)
         ELSE IF ch = "_" THEN float_exp_loop(input, len + 1, has_exp_value)
         ELSE [len |-> len, has_exp_value |-> has_exp_value]

F32 == <<"f", "3", "2">>
F64 == <<"f", "6", "4">>

float_digits(input) ==
    IF ~(InRange(input, 0) /\ CharAt(input, 0) \in Digit) THEN Err
    ELSE With(float_digits_loop(input, 1, FALSE), LAMBDA m :
         IF m.err THEN Err
         ELSE With(Slice(input, m.len), LAMBDA rest :
              IF ~(m.has_dot \/ m.has_exp \/ starts_with(rest, F32) \/ starts_with(rest, F64))
              THEN Err
              ELSE IF m.has_exp
              THEN With(float_exp_loop(input, m.len, FALSE), LAMBDA e :
                   IF ~e.has_exp_value THEN Err ELSE Ok(Slice(input, e.len), Unit))
              ELSE Ok(rest, Unit)))

float(input) ==
    AndThen(float_digits(input), LAMBDA d :
        IF starts_with(d.rest, F32) THEN word_break(Slice(d.rest, 3))
        ELSE IF starts_with(d.rest, F64) THEN word_break(Slice(d.rest, 3))
        ELSE word_break(d.rest))

HexChars == <<"0", "1", "2", "3", "4", "5", "6", "7", "8", "9",
              "a", "b", "c", "d", "e", "f">>
UpperHexChars == <<"0", "1", "2", "3", "4", "5", "6", "7", "8", "9",
                   "A", "B", "C", "D", "E", "F">>
digit_value(b) ==
    IF \E n \in 1..16 : HexChars[n] = b
    THEN (CHOOSE n \in 1..16 : HexChars[n] = b) - 1
    ELSE (CHOOSE n \in 1..16 : UpperHexChars[n] = b) - 1

RECURSIVE digits_loop(_, _, _, _)
digits_loop(input, len, empty, base) ==
    IF ~InRange(input, len)
    THEN IF empty THEN Err ELSE Ok(Slice(input, len), Unit)
    ELSE LET b == input[len + 1] IN
         IF b \in HexDigit
         THEN IF digit_value(b) >= base THEN Err
              ELSE digits_loop(input, len + 1, FALSE, base)
         ELSE IF b = "_"
         THEN IF empty /\ base = 10 THEN Err
              ELSE digits_loop(input, len + 1, empty, base)
         ELSE IF empty THEN Err ELSE Ok(Slice(input, len), Unit)

digits(input) ==
    IF starts_with(input, <<"0", "x">>) THEN digits_loop(Slice(input, 2), 0, TRUE, 16)
    ELSE IF starts_with(input, <<"0", "o">>) THEN digits_loop(Slice(input, 2), 0, TRUE, 8)
    ELSE IF starts_with(input, <<"0", "b">>) THEN digits_loop(Slice(input, 2), 0, TRUE, 2)
    ELSE digits_loop(input, 0, TRUE, 10)

IntSuffixes == <<
    <<"i", "s", "i", "z", "e">>, <<"i", "8">>, <<"i", "1", "6">>, <<"i", "3", "2">>,
    <<"i", "6", "4">>, <<"i", "1", "2", "8">>,
    <<"u", "s", "i", "z", "e">>, <<"u", "8">>, <<"u", "1", "6">>, <<"u", "3", "2">>,
    <<"u", "6", "4">>, <<"u", "1", "2", "8">> >>

\* the index of the first suffix of the list that rest starts with, or 0
first_suffix(rest) ==
    IF \E k \in 1..Len(IntSuffixes) : starts_with(rest, IntSuffixes[k])
    THEN CHOOSE k \in 1..Len(IntSuffixes) :
            /\ starts_with(rest, IntSuffixes[k])
            /\ \A j \in 1..(k - 1) : ~starts_with(rest, IntSuffixes[j])
    ELSE 0

\* int that does not look for a word break after the suffix
int_no_word_break(input) ==
    AndThen(digits(input), LAMBDA d :
        With(first_suffix(d.rest), LAMBDA k :
            IF k > 0 THEN Ok(Slice(d.rest, Len(IntSuffixes[k])), Unit)
            ELSE Ok(d.rest, Unit)))

int(input) ==
    AndThen(digits(input), LAMBDA d :
        With(first_suffix(d.rest), LAMBDA k :
            IF k > 0 THEN word_break(Slice(d.rest, Len(IntSuffixes[k])))
            ELSE word_break(d.rest)))

boolean(input) ==
    OrElse(AndThen(keyword(input, <<"t", "r", "u", "e">>), LAMBDA t : Ok(t.rest, Unit)),
           AndThen(keyword(input, <<"f", "a", "l", "s", "e">>), LAMBDA f : Ok(f.rest, Unit)))

(***************************************************************************)
(* Operators and doc comments                                              *)
(***************************************************************************)
recognized == {"~", "!", "@", "#", "$", "%", "^", "&", "*", "-", "=", "+", "|",
               ";", ":", ",", "<", ".", ">", "/", "?"}

op_char(input) ==
    IF ~InRange(input, 0) THEN Err
    ELSE IF CharAt(input, 0) \in recognized
    THEN Ok(Slice(input, CharWidth(input, 0)), CharAt(input, 0))
    ELSE Err

\* op peeking for the next operator character after whitespace and comments
op_peek_past_whitespace(input) ==
    AndThen(op_char(skip_whitespace(input)), LAMBDA c :
        Ok(c.rest, [ch |-> c.val,
                    spacing |-> IF op_char(skip_whitespace(c.rest)).st = "Ok"
                                THEN "Joint" ELSE "Alone"]))

op(input) ==
    AndThen(op_char(skip_whitespace(input)), LAMBDA c :
        Ok(c.rest, [ch |-> c.val,
                    spacing |-> IF op_char(c.rest).st = "Ok" THEN "Joint" ELSE "Alone"]))

is_inner_block_doc(i) == starts_with(i, <<"/", "*", "!">>)
is_outer_block_doc(i) ==
    starts_with(i, <<"/", "*", "*">>) /\ ~starts_with(i, <<"/", "*", "*", "*">>)

\* option!(whitespace) >> peek!(...) >> block_comment
doc_block(input, inner) ==
    With(skip_whitespace(input), LAMBDA i :
        IF (inner /\ is_inner_block_doc(i)) \/ (~inner /\ is_outer_block_doc(i))
        THEN AndThen(block_comment(i), LAMBDA c : Ok(c.rest, Unit))
        ELSE Err)

doc_comment(input) ==
    OrElse(AndThen(punct(input, <<"/", "/", "!">>), LAMBDA a :
           AndThen(take_until_newline(a.rest), LAMBDA b : Ok(b.rest, Unit))),
    OrElse(doc_block(input, TRUE),
    OrElse(AndThen(punct(input, <<"/", "/", "/">>), LAMBDA a :
           IF starts_with(a.rest, <<"/">>) THEN Err
           ELSE AndThen(take_until_newline(a.rest), LAMBDA b : Ok(b.rest, Unit))),
           doc_block(input, FALSE))))

(***************************************************************************)
(* Symbols                                                                 *)
(***************************************************************************)
KEYWORDS == {
    <<"a", "b", "s", "t", "r", "a", "c", "t">>,
    <<"a", "l", "i", "g", "n", "o", "f">>,
    <<"a", "s">>,
    <<"b", "e", "c", "o", "m", "e">>,
    <<"b", "o", "x">>,
    <<"b", "r", "e", "a", "k">>,
    <<"c", "o", "n", "s", "t">>,
    <<"c", "o", "n", "t", "i", "n", "u", "e">>,
    <<"c", "r", "a", "t", "e">>,
    <<"d", "o">>,
    <<"e", "l", "s", "e">>,
    <<"e", "n", "u", "m">>,
    <<"e", "x", "t", "e", "r", "n">>,
    <<"f", "a", "l", "s", "e">>,
    <<"f", "i", "n", "a", "l">>,
    <<"f", "n">>,
    <<"f", "o", "r">>,
    <<"i", "f">>,
    <<"i", "m", "p", "l">>,
    <<"i", "n">>,
    <<"l", "e", "t">>,
    <<"l", "o", "o", "p">>,
    <<"m", "a", "c", "r", "o">>,
    <<"m", "a", "t", "c", "h">>,
    <<"m", "o", "d">>,
    <<"m", "o", "v", "e">>,
    <<"m", "u", "t">>,
    <<"o", "f", "f", "s", "e", "t", "o", "f">>,
    <<"o", "v", "e", "r", "r", "i", "d", "e">>,
    <<"p", "r", "i", "v">>,
    <<"p", "r", "o", "c">>,
    <<"p", "u", "b">>,
    <<"p", "u", "r", "e">>,
    <<"r", "e", "f">>,
    <<"r", "e", "t", "u", "r", "n">>,
    <<"s", "e", "l", "f">>,
    <<"S", "e", "l", "f">>,
    <<"s", "i", "z", "e", "o", "f">>,
    <<"s", "t", "a", "t", "i", "c">>,
    <<"s", "t", "r", "u", "c", "t">>,
    <<"s", "u", "p", "e", "r">>,
    <<"t", "r", "a", "i", "t">>,
    <<"t", "r", "u", "e">>,
    <<"t", "y", "p", "e">>,
    <<"t", "y", "p", "e", "o", "f">>,
    <<"u", "n", "s", "a", "f", "e">>,
    <<"u", "n", "s", "i", "z", "e", "d">>,
    <<"u", "s", "e">>,
    <<"v", "i", "r", "t", "u", "a", "l">>,
    <<"w", "h", "e", "r", "e">>,
    <<"w", "h", "i", "l", "e">>,
    <<"y", "i", "e", "l", "d">>}

\* the offset of the first character from i that is not XID_Continue
RECURSIVE symbol_end(_, _)
symbol_end(input, i) ==
    IF ~InRange(input, i) THEN Len(input)
    ELSE IF ~is_xid_continue(CharAt(input, i)) THEN i
    ELSE symbol_end(input, i + CharWidth(input, i))

\* a Term is modelled by the string its handle dereferences to
\* symbol after its skip_whitespace
symbol_at(input) ==
    LET lifetime == starts_with(input, <<"'">>)
        first == IF lifetime THEN 1 ELSE 0
    IN
    IF ~(InRange(input, first)
         /\ (is_xid_start(CharAt(input, first)) \/ CharAt(input, first) = "_"))
    THEN Err
    ELSE With(symbol_end(input, first + CharWidth(input, first)), LAMBDA end :
         IF /\ lifetime
            /\ Prefix(input, end) # <<"'", "s", "t", "a", "t", "i", "c">>
            /\ SubSeq(input, 2, end) \in KEYWORDS
         THEN Err
         ELSE Ok(Slice(input, end), Prefix(input, end)))

\* symbol with no keyword excepted from the rejection of lifetimes
symbol_no_exception(input) ==
    With(symbol_at(skip_whitespace(input)), LAMBDA r :
        IF r.st = "Ok" /\ r.val = <<"'", "s", "t", "a", "t", "i", "c">> THEN Err ELSE r)

symbol(input) == symbol_at(skip_whitespace(input))

(***************************************************************************)
(* Literals and token trees                                                *)
(***************************************************************************)
literal_nocapture(input) ==
    OrElse(string(input),
    OrElse(byte_string(input),
    OrElse(byte(input),
    OrElse(character(input),
    OrElse(float(input),
    OrElse(int(input),
    OrElse(boolean(input),
           doc_comment(input))))))))

literal(input) ==
    With(skip_whitespace(input), LAMBDA input_no_ws :
    AndThen(literal_nocapture(input_no_ws), LAMBDA r :
        LET start == Len(input) - Len(input_no_ws)
            len == Len(input_no_ws) - Len(r.rest)
            end == start + len
        IN Ok(r.rest, SubSeq(input, start + 1, end))))

Group(delim, stream) == [kind |-> "Group", delim |-> delim, stream |-> stream]
Term(sym) == [kind |-> "Term", text |-> sym]
Op(ch, spacing) == [kind |-> "Op", ch |-> ch, spacing |-> spacing]
Literal(text) == [kind |-> "Literal", text |-> text]

Open == [Parenthesis |-> "(", Bracket |-> "[", Brace |-> "{"]
Close == [Parenthesis |-> ")", Bracket |-> "]", Brace |-> "}"]

\* The grammar's results also carry log: the strings symbol handed to
\* Term::intern so far, in call order, kept when a group then fails.
OkLog(rest, val, log) == [st |-> "Ok", rest |-> rest, val |-> val, log |-> log]
ErrLog(log) == [st |-> "Err", log |-> log]

RECURSIVE token_stream(_)
RECURSIVE token_kind(_)

\* delimited_by closed by any of the three closing delimiters
delimited_by_any_close(input, delim) ==
    With(punct(input, <<Open[delim]>>), LAMBDA a :
    IF a.st # "Ok" THEN ErrLog(<<>>)
    ELSE AndThen(token_stream(a.rest), LAMBDA s :
         With(skip_whitespace(s.rest), LAMBDA s1 :
         IF s1 # <<>> /\ s1[1] \in {")", "]", "}"}
         THEN OkLog(Slice(s1, 1), Group(delim, s.val), s.log)
         ELSE ErrLog(s.log))))

\* one alternative of delimited: punct!(open), token_stream, punct!(close)
delimited_by(input, delim) ==
    With(punct(input, <<Open[delim]>>), LAMBDA a :
    IF a.st # "Ok" THEN ErrLog(<<>>)
    ELSE AndThen(token_stream(a.rest), LAMBDA s :
         With(punct(s.rest, <<Close[delim]>>), LAMBDA c :
         IF c.st # "Ok" THEN ErrLog(s.log)
         ELSE OkLog(c.rest, Group(delim, s.val), s.log))))

\* r with the strings interned by the alternatives that failed before it
AfterLog(log, r) ==
    IF r.st = "Panic" THEN r
    ELSE IF r.st = "Ok" THEN OkLog(r.rest, r.val, log \o r.log)
    ELSE ErrLog(log \o r.log)

\* alt! of the grammar: as OrElse, the log of the failed alternative kept
OrElseLog(a, b) == IF a.st # "Err" THEN a ELSE AfterLog(a.log, b)

delimited(input) ==
    OrElseLog(delimited_by(input, "Parenthesis"),
    OrElseLog(delimited_by(input, "Bracket"),
              delimited_by(input, "Brace")))

\* the alternatives after delimited with symbol tried before literal
token_leaf_symbol_first(input) ==
    OrElse(With(symbol(input), LAMBDA s :
               IF s.st = "Ok" THEN OkLog(s.rest, Term(s.val), <<s.val>>)
               ELSE ErrLog(<<>>)),
    OrElse(With(literal(input), LAMBDA l :
               IF l.st = "Ok" THEN OkLog(l.rest, Literal(l.val), <<>>)
               ELSE IF l.st = "Panic" THEN Panic
               ELSE ErrLog(<<>>)),
           With(op(input), LAMBDA o :
               IF o.st = "Ok" THEN OkLog(o.rest, Op(o.val.ch, o.val.spacing), <<>>)
               ELSE ErrLog(<<>>))))

\* the alternatives of token_kind after delimited
token_leaf(input) ==
    OrElse(With(literal(input), LAMBDA l :
               IF l.st = "Ok" THEN OkLog(l.rest, Literal(l.val), <<>>)
               ELSE IF l.st = "Panic" THEN Panic
               ELSE ErrLog(<<>>)),
    OrElse(With(symbol(input), LAMBDA s :
               IF s.st = "Ok" THEN OkLog(s.rest, Term(s.val), <<s.val>>)
               ELSE ErrLog(<<>>)),
           With(op(input), LAMBDA o :
               IF o.st = "Ok" THEN OkLog(o.rest, Op(o.val.ch, o.val.spacing), <<>>)
               ELSE ErrLog(<<>>))))

token_kind(input) == OrElseLog(delimited(input), token_leaf(input))

\* a TokenTree is its kind: the span is the unit struct Span
token_tree(input) == token_kind(input)

RECURSIVE many0_token_tree(_, _, _)
many0_token_tree(input, res, log) ==
    IF input = <<>> THEN OkLog(input, res, log)
    ELSE With(token_tree(input), LAMBDA r :
         IF r.st = "Err" THEN OkLog(input, res, log \o r.log)
         ELSE IF r.st = "Panic" THEN Panic
         ELSE IF Len(r.rest) = Len(input) THEN ErrLog(log \o r.log)
         ELSE many0_token_tree(r.rest, Append(res, r.val), log \o r.log))

token_stream(input) == many0_token_tree(input, <<>>, <<>>)

\* from_str without the check that nothing is left over
from_str_partial(s) ==
    With(token_stream(s), LAMBDA r :
    IF r.st = "Ok" THEN [st |-> "Ok", stream |-> r.val, log |-> r.log]
    ELSE IF r.st = "Err" THEN [st |-> "Err", stream |-> <<>>, log |-> r.log]
    ELSE [st |-> "Panic", stream |-> <<>>, log |-> <<>>])

\* the Result of TokenStream::from_str or Panic, and the strings interned
from_str(s) ==
    With(token_stream(s), LAMBDA r :
    IF r.st = "Ok"
    THEN IF Len(skip_whitespace(r.rest)) # 0
         THEN [st |-> "Err", stream |-> <<>>, log |-> r.log]
         ELSE [st |-> "Ok", stream |-> r.val, log |-> r.log]
    ELSE IF r.st = "Err" THEN [st |-> "Err", stream |-> <<>>, log |-> r.log]
    ELSE [st |-> "Panic", stream |-> <<>>, log |-> <<>>])

(***************************************************************************)
(* Display for TokenStream                                                 *)
(***************************************************************************)
Start == [Parenthesis |-> <<"(">>, Brace |-> <<"{">>, Bracket |-> <<"[">>, None |-> <<>>]
End == [Parenthesis |-> <<")">>, Brace |-> <<"}">>, Bracket |-> <<"]">>, None |-> <<>>]

RECURSIVE fmt(_)
RECURSIVE fmt_from(_, _, _)

\* one token tree of the loop in fmt
fmt_tree(tt) ==
    IF tt.kind = "Group"
    THEN IF Len(tt.stream) = 0
         THEN Start[tt.delim] \o <<" ">> \o End[tt.delim]
         ELSE Start[tt.delim] \o <<" ">> \o fmt(tt.stream) \o <<" ">> \o End[tt.delim]
    ELSE IF tt.kind = "Term" THEN tt.text
    ELSE IF tt.kind = "Op" THEN <<tt.ch>>
    ELSE IF starts_with(tt.text, <<"/">>) THEN tt.text \o <<"\n">>
    ELSE tt.text

\* the loop from its i-th iteration (0-based), with the flag joint
fmt_from(inner, i, joint) ==
    IF i >= Len(inner) THEN <<>>
    ELSE LET tt == inner[i + 1]
             sep == IF i # 0 /\ ~joint THEN <<" ">> ELSE <<>>
         IN sep \o fmt_tree(tt)
                \o fmt_from(inner, i + 1, tt.kind = "Op" /\ tt.spacing = "Joint")

fmt(inner) == fmt_from(inner, 0, FALSE)

(***************************************************************************)
(* The Literal constructors                                                *)
(***************************************************************************)
DecDigits == <<"0", "1", "2", "3", "4", "5", "6", "7", "8", "9">>

\* the decimal digits of n >= 0
RECURSIVE nat_to_string(_)
nat_to_string(n) ==
    IF n < 10 THEN <<DecDigits[n + 1]>>
    ELSE Append(nat_to_string(n \div 10), DecDigits[(n % 10) + 1])

\* i64::to_string
int_to_string(n) ==
    IF n < 0 THEN <<"-">> \o nat_to_string(-n) ELSE nat_to_string(n)

\* f64::to_string of the value tenths / 10
float_to_string(tenths) ==
    LET a == IF tenths < 0 THEN -tenths ELSE tenths
        sign == IF tenths < 0 THEN <<"-">> ELSE <<>>
    IN
    IF a % 10 = 0 THEN sign \o nat_to_string(a \div 10)
    ELSE sign \o nat_to_string(a \div 10) \o <<".">> \o nat_to_string(a % 10)

Printable == Lower \cup Upper \cup Digit \cup recognized
             \cup {" ", "_", "(", ")", "[", "]", "{", "}"}
LowerHexOf == [x00 |-> <<"0", "0">>, xC3 |-> <<"c", "3">>, xA9 |-> <<"a", "9">>]
UpperHexOf == [x00 |-> <<"0", "0">>, xC3 |-> <<"C", "3">>, xA9 |-> <<"A", "9">>]

\* std::ascii::escape_default
ascii_escape_default(b) ==
    IF b = "\t" THEN <<"\\", "t">>
    ELSE IF b = "\r" THEN <<"\\", "r">>
    ELSE IF b = "\n" THEN <<"\\", "n">>
    ELSE IF b \in {"'", "\"", "\\"} THEN <<"\\", b>>
    ELSE IF b \in Printable THEN <<b>>
    ELSE <<"\\", "x">> \o LowerHexOf[b]

\* char::escape_default, of the character named ch
char_escape_default(ch) ==
    IF ch = "\t" THEN <<"\\", "t">>
    ELSE IF ch = "\r" THEN <<"\\", "r">>
    ELSE IF ch = "\n" THEN <<"\\", "n">>
    ELSE IF ch \in {"'", "\"", "\\"} THEN <<"\\", ch>>
    ELSE IF ch \in Printable THEN <<ch>>
    ELSE IF ch = "U+00E9" THEN <<"\\", "u", "{", "e", "9", "}">>
    ELSE <<"\\", "u", "{", "0", "}">>

Literal_byte_char(b) ==
    IF b = "x00" THEN <<"b", "'", "\\", "0", "'">>
    ELSE IF b = "\"" THEN <<"b", "'", "\"", "'">>
    ELSE <<"b", "'">> \o ascii_escape_default(b) \o <<"'">>

RECURSIVE byte_string_escaped(_)
byte_string_escaped(bytes) ==
    IF bytes = <<>> THEN <<>>
    ELSE LET b == Head(bytes)
             e == IF b = "x00" THEN <<"\\", "0">>
                  ELSE IF b = "\t" THEN <<"\\", "t">>
                  ELSE IF b = "\n" THEN <<"\\", "n">>
                  ELSE IF b = "\r" THEN <<"\\", "r">>
                  ELSE IF b = "\"" THEN <<"\\", "\"">>
                  ELSE IF b = "\\" THEN <<"\\", "\\">>
                  ELSE IF b \in Printable \cup {"'"} THEN <<b>>
                  ELSE <<"\\", "x">> \o UpperHexOf[b]
         IN e \o byte_string_escaped(Tail(bytes))

Literal_byte_string(bytes) == <<"b", "\"">> \o byte_string_escaped(bytes) \o <<"\"">>

Literal_doccomment(s) == s
Literal_float(tenths) == float_to_string(tenths)
Literal_integer(n) == int_to_string(n)

Pounds(n) == [k \in 1..n |-> "#"]
Literal_raw_string(s, pounds) ==
    <<"r">> \o Pounds(pounds) \o <<"\"">> \o s \o <<"\"">> \o Pounds(pounds)
Literal_raw_byte_string(s, pounds) ==
    <<"b", "r">> \o Pounds(pounds) \o <<"\"">> \o s \o <<"\"">> \o Pounds(pounds)

\* From<$t> for Literal, $t an integer or a float type named by its characters
Literal_from_int(n, ty) == int_to_string(n) \o ty
Literal_from_float(tenths, ty) == float_to_string(tenths) \o ty

\* From<&str> and From<char>, the text given as a sequence of character names
RECURSIVE str_escaped(_)
str_escaped(chars) ==
    IF chars = <<>> THEN <<>>
    ELSE char_escape_default(Head(chars)) \o str_escaped(Tail(chars))
Literal_from_str(chars) == <<"\"">> \o str_escaped(chars) \o <<"\"">>
Literal_from_char(ch) == <<"'">> \o char_escape_default(ch) \o <<"'">>

(***************************************************************************)
(* The interner: SYMBOLS is thread_local, one Interner per thread          *)
(***************************************************************************)
Interner_new == [string_to_index |-> [x \in {} |-> 0], index_to_string |-> <<>>]

\* intern that reuses the last slot of a table that already holds an entry
intern_reuse_slot(self, s) ==
    IF s \in DOMAIN self.string_to_index
    THEN [self |-> self, idx |-> self.string_to_index[s]]
    ELSE IF self.index_to_string = <<>>
    THEN [self |-> [string_to_index |-> [x \in {s} |-> 0], index_to_string |-> <<s>>],
          idx |-> 0]
    ELSE [self |-> [string_to_index |->
                        [x \in DOMAIN self.string_to_index \cup {s} |->
                            IF x = s THEN Len(self.index_to_string) - 1
                            ELSE self.string_to_index[x]],
                    index_to_string |->
                        [self.index_to_string
                            EXCEPT ![Len(self.index_to_string)] = s]],
          idx |-> Len(self.index_to_string) - 1]

\* intern that does not look the string up before it pushes
intern_always_push(self, s) ==
    With(Append(self.index_to_string, s), LAMBDA pushed :
    [self |-> [string_to_index |->
                   [x \in DOMAIN self.string_to_index \cup {s} |->
                       IF x = s THEN Len(pushed) - 1 ELSE self.string_to_index[x]],
               index_to_string |-> pushed],
     idx |-> Len(pushed) - 1])

\* Interner::intern: the interner after the call, and the index returned
intern(self, s) ==
    IF s \in DOMAIN self.string_to_index
    THEN [self |-> self, idx |-> self.string_to_index[s]]
    ELSE With(Append(self.index_to_string, s), LAMBDA pushed :
         [self |-> [string_to_index |->
                        [x \in DOMAIN self.string_to_index \cup {s} |->
                            IF x = s THEN Len(pushed) - 1 ELSE self.string_to_index[x]],
                    index_to_string |-> pushed],
          idx |-> Len(pushed) - 1])

\* Interner::get
get(self, idx) == self.index_to_string[idx + 1]

\* Term::from called for each string of log in turn: the interner, the Terms
\* handed out, and the last call ([] if none): its Term and whether it pushed
RECURSIVE intern_all(_, _, _, _)
intern_all(self, log, thread, prev) ==
    IF log = <<>> THEN [self |-> self, terms |-> {}, last |-> prev]
    ELSE With(intern(self, Head(log)), LAMBDA r :
         With([thread |-> thread, string |-> Head(log), intern |-> r.idx], LAMBDA term :
         With(intern_all(r.self, Tail(log), thread,
                         [some |-> TRUE, term |-> term, pushed |-> r.self # self]),
              LAMBDA more :
         [self |-> more.self, terms |-> more.terms \cup {term}, last |-> more.last])))

(***************************************************************************)
(* The state machine: text is lexed (from_str), a stream is rendered       *)
(* (to_string, by Display), and the rendered text may be lexed again, as   *)
(* the From conversions of lines 98-108 do.  Term::from may also be called *)
(* directly, on any thread.                                                *)
(***************************************************************************)
NThreads == 2
Threads == 1..NThreads
MainThread == 1
NoStream == [some |-> FALSE, stream |-> <<>>]
NoTerm == [some |-> FALSE]

\* all strings of at most n characters of the alphabet A
Strings(A, n) == UNION {[1..k -> A] : k \in 0..n}

\* the bytes of a sequence of characters, each given by its bytes
RECURSIVE Bytes(_)
Bytes(chars) == IF chars = <<>> THEN <<>> ELSE Head(chars) \o Bytes(Tail(chars))

InitInterners ==
    /\ interners = [t \in Threads |-> Interner_new]
    /\ terms = {}
    /\ last = NoTerm

\* the state before from_str(text)
InitText(text) ==
    /\ src = text
    /\ result = [st |-> "New", stream |-> <<>>]
    /\ built = NoStream
    /\ pc = "text"
    /\ InitInterners

\* the state holding a stream built through the constructors
InitStream(stream) ==
    /\ src = <<>>
    /\ result = [st |-> "New", stream |-> stream]
    /\ built = NoStream
    /\ pc = "stream"
    /\ InitInterners

\* src.parse::<TokenStream>() on the main thread (r and i are bound by \E so
\* that each is evaluated once)
FromStr ==
    /\ pc = "text"
    /\ \E r \in {from_str(src)} :
       \E i \in {intern_all(interners[MainThread], r.log, MainThread, last)} :
          /\ result' = [st |-> r.st, stream |-> r.stream]
          /\ pc' = IF r.st = "Ok" THEN "stream" ELSE "failed"
          /\ interners' = [interners EXCEPT ![MainThread] = i.self]
          /\ terms' = terms \cup i.terms
          /\ last' = i.last
    /\ UNCHANGED <<src, built>>

\* stream.to_string()
to_string ==
    /\ pc = "stream"
    /\ src' = fmt(result.stream)
    /\ built' = [some |-> TRUE, stream |-> result.stream]
    /\ pc' = "text"
    /\ UNCHANGED <<result, interners, terms, last>>

\* Term::from(string) on thread t
TermFrom(t, s) ==
    /\ \E i \in {intern_all(interners[t], <<s>>, t, last)} :
          /\ interners' = [interners EXCEPT ![t] = i.self]
          /\ terms' = terms \cup i.terms
          /\ last' = i.last
    /\ UNCHANGED <<src, result, built, pc>>

Next == FromStr \/ to_string

\* result is the outcome of from_str(src)
Lexed == pc \in {"stream", "failed"} /\ result.st # "New"

(***************************************************************************)
(* Spec: from_str on every short text over a mixed alphabet                *)
(***************************************************************************)
MaxLen == 4
Alphabet == {"a", "1", "+", " ", "(", ")", "\"", "/", "\n"}
Init == \E text \in Strings(Alphabet, MaxLen) : InitText(text)
Spec == Init /\ [][Next]_vars

(***************************************************************************)
(* The tokens of a stream laid back over the text they were lexed from:    *)
(* before each token whitespace and comments are skipped, then the token's *)
(* own text must follow.  items lists every token, depth first, with the   *)
(* text that follows it (for a group: that follows its opening delimiter,  *)
(* and inside, the text between its delimiters).                           *)
(***************************************************************************)
NotAligned == [ok |-> FALSE, rest |-> <<>>, items |-> <<>>]

RECURSIVE Aligned(_, _)
Aligned(s, stream) ==
    IF stream = <<>> THEN [ok |-> TRUE, rest |-> s, items |-> <<>>]
    ELSE LET tt == Head(stream)
             s1 == skip_whitespace(s)
             text == IF tt.kind = "Op" THEN <<tt.ch>>
                     ELSE IF tt.kind = "Group"
                     THEN (IF tt.delim = "None" THEN <<>> ELSE <<Open[tt.delim]>>)
                     ELSE tt.text
         IN
         IF text = <<>> \/ ~starts_with(s1, text) THEN NotAligned
         ELSE LET after == Slice(s1, Len(text)) IN
              IF tt.kind = "Group"
              THEN LET inner == Aligned(after, tt.stream)
                       s2 == skip_whitespace(inner.rest)
                   IN
                   IF ~inner.ok \/ ~starts_with(s2, <<Close[tt.delim]>>) THEN NotAligned
                   ELSE LET more == Aligned(Slice(s2, 1), Tail(stream)) IN
                        [ok |-> more.ok, rest |-> more.rest,
                         items |-> <<[tok |-> tt, after |-> after,
                                      inside |-> Prefix(after, Len(after) - Len(s2))]>>
                                   \o inner.items \o more.items]
              ELSE LET more == Aligned(after, Tail(stream)) IN
                   [ok |-> more.ok, rest |-> more.rest,
                    items |-> <<[tok |-> tt, after |-> after]>> \o more.items]

\* the stream accounts for all of the text but whitespace and comments
Covers(s, stream) ==
    LET a == Aligned(s, stream) IN a.ok /\ skip_whitespace(a.rest) = <<>>

(***************************************************************************)
(* C1.  from_str returns Ok only when, after the longest sequence of token *)
(* trees and the trailing whitespace and comments, nothing of the input is *)
(* left: the stream it returns is that whole sequence and accounts for all *)
(* of the text.  With anything left over it returns Err and no stream.     *)
(***************************************************************************)
C1_WholeInputOrError ==
    Lexed =>
        LET ts == token_stream(src) IN
        /\ result.st = "Ok" =>
              /\ ts.st = "Ok"
              /\ skip_whitespace(ts.rest) = <<>>
              /\ result.stream = ts.val
              /\ Covers(src, result.stream)
        /\ (ts.st = "Ok" /\ skip_whitespace(ts.rest) # <<>>) =>
              result = [st |-> "Err", stream |-> <<>>]

\* a text with token trees parsed and something left over was refused
C1_Witness ==
    /\ Lexed
    /\ result.st = "Err"
    /\ token_stream(src).st = "Ok"
    /\ Len(token_stream(src).val) > 0

(***************************************************************************)
(* SpecDelim: from_str on texts of delimiters, a one-letter word and blanks*)
(***************************************************************************)
MaxLenDelim == 4
DelimAlphabet == {"(", ")", "[", "]", "{", "}", "a", " "}
NestedExample == <<"(", "a", " ", "(", "b", ")", " ", "c", ")">>
DelimExamples == {NestedExample, <<"(", "a">>, <<"(", "a", "]">>}
InitDelim ==
    \E text \in Strings(DelimAlphabet, MaxLenDelim) \cup DelimExamples : InitText(text)
SpecDelim == InitDelim /\ [][Next]_vars

Openers == {"(", "[", "{"}
Closers == {")", "]", "}"}
CloserOf == [c \in Openers |-> IF c = "(" THEN ")" ELSE IF c = "[" THEN "]" ELSE "}"]

\* only words, blanks and delimiters: every delimiter of the text is a token
PlainText(s) == \A i \in 1..Len(s) : s[i] \in Lower \cup {" "} \cup Openers \cup Closers

\* the delimiters of s from position i on are balanced and matched, the
\* openers pending on the stack first
RECURSIVE BalancedFrom(_, _, _)
BalancedFrom(s, i, stack) ==
    IF i > Len(s) THEN stack = <<>>
    ELSE IF s[i] \in Openers THEN BalancedFrom(s, i + 1, <<s[i]>> \o stack)
    ELSE IF s[i] \in Closers
    THEN /\ stack # <<>>
         /\ CloserOf[Head(stack)] = s[i]
         /\ BalancedFrom(s, i + 1, Tail(stack))
    ELSE BalancedFrom(s, i + 1, stack)
Balanced(s) == BalancedFrom(s, 1, <<>>)

\* the texts of the tokens of a stream, each group between its delimiters
RECURSIVE Flatten(_)
Flatten(stream) ==
    IF stream = <<>> THEN <<>>
    ELSE LET tt == Head(stream) IN
         (IF tt.kind = "Group"
          THEN Start[tt.delim] \o Flatten(tt.stream) \o End[tt.delim]
          ELSE IF tt.kind = "Op" THEN <<tt.ch>>
          ELSE tt.text) \o Flatten(Tail(stream))

NoBlanks(s) == SelectSeq(s, LAMBDA c : c # " ")

(***************************************************************************)
(* C2.  A text of words, blanks and delimiters lexes exactly when its      *)
(* delimiters are balanced and matched.  Each matched pair then yields one *)
(* Group with the matching Delimiter whose stream is the parse of the text *)
(* between the pair; an unbalanced or mismatched text yields no stream.    *)
(***************************************************************************)
C2_BalancedGroups ==
    (Lexed /\ PlainText(src)) =>
        /\ result.st = "Ok" <=> Balanced(src)
        /\ result.st # "Ok" => result = [st |-> "Err", stream |-> <<>>]
        /\ result.st = "Ok" =>
              LET a == Aligned(src, result.stream) IN
              /\ a.ok
              /\ Flatten(result.stream) = NoBlanks(src)
              /\ \A k \in 1..Len(a.items) :
                    a.items[k].tok.kind = "Group" =>
                       /\ a.items[k].tok.delim \in {"Parenthesis", "Bracket", "Brace"}
                       /\ Balanced(a.items[k].inside)
                       /\ from_str(a.items[k].inside).st = "Ok"
                       /\ from_str(a.items[k].inside).stream = a.items[k].tok.stream
        /\ src = NestedExample =>
              result.stream = <<Group("Parenthesis",
                                      <<Term(<<"a">>),
                                        Group("Parenthesis", <<Term(<<"b">>)>>),
                                        Term(<<"c">>)>>)>>

\* the nested example was lexed to a stream with a group in a group
C2_Witness ==
    /\ Lexed
    /\ src = NestedExample
    /\ result.st = "Ok"
    /\ Len(result.stream) = 1
    /\ result.stream[1].stream[2].kind = "Group"

(***************************************************************************)
(* SpecRoundTrip: streams built through the constructors are rendered and  *)
(* the text is lexed again                                                 *)
(***************************************************************************)
MaxItems == 2
ConstructedLiterals ==
    { Literal_integer(1), Literal_integer(-1), Literal_float(15), Literal_float(10),
      Literal_from_int(1, <<"u", "8">>), Literal_from_float(15, <<"f", "3", "2">>),
      Literal_from_str(<<"a">>), Literal_from_str(<<"U+00E9">>), Literal_from_char("a"),
      Literal_byte_char("a"), Literal_byte_char("x00"), Literal_byte_string(<<"a", "xC3">>),
      Literal_raw_string(<<"a">>, 1), Literal_raw_byte_string(<<"a">>, 0),
      Literal_doccomment(<<"/", "/", "/", "a">>) }
Leaves ==
    {Term(<<"a">>), Term(<<"'", "a">>)}
    \cup {Op(c, s) : c \in {"-", ">", "/"}, s \in {"Joint", "Alone"}}
    \cup {Literal(text) : text \in ConstructedLiterals}
Groups ==
    {Group(d, s) : d \in {"Parenthesis", "Bracket", "Brace", "None"},
                   s \in {<<>>} \cup {<<l>> : l \in Leaves}}
Streams == UNION {[1..k -> Leaves \cup Groups] : k \in 0..MaxItems}
InitRoundTrip == \E stream \in Streams : InitStream(stream)
SpecRoundTrip == InitRoundTrip /\ [][Next]_vars

\* a stream with the spacing of its operators forgotten
RECURSIVE NoSpacing(_)
NoSpacing(stream) ==
    [k \in 1..Len(stream) |->
        IF stream[k].kind = "Op" THEN Op(stream[k].ch, "Alone")
        ELSE IF stream[k].kind = "Group"
        THEN Group(stream[k].delim, NoSpacing(stream[k].stream))
        ELSE stream[k]]

\* the rendering of the stream built was lexed again
Relexed == Lexed /\ built.some /\ src = fmt(built.stream)

(***************************************************************************)
(* C3.  Round trip: the rendering of every stream built from Groups of any *)
(* Delimiter, Terms, Ops and constructed Literals lexes again, to a stream *)
(* equal to the one rendered but for the spacing of its operators.         *)
(***************************************************************************)
C3_RoundTrip ==
    Relexed => /\ result.st = "Ok"
               /\ NoSpacing(result.stream) = NoSpacing(built.stream)

\* a stream with a group and a constructed literal came back from its text
C3_Witness ==
    /\ Relexed
    /\ result.st = "Ok"
    /\ NoSpacing(result.stream) = NoSpacing(built.stream)
    /\ Len(built.stream) = 2
    /\ built.stream[1].kind = "Group"
    /\ built.stream[1].stream # <<>>
    /\ built.stream[2].kind = "Literal"

(***************************************************************************)
(* SpecOp: from_str on texts of operators, blanks, comments and words      *)
(***************************************************************************)
MaxLenOp == 4
OpAlphabet == {"-", ">", "/", " ", "\n", "a", "(", ")"}
Arrow == <<"-", ">">>
SpacedArrow == <<"-", " ", ">">>
InitOp == \E text \in Strings(OpAlphabet, MaxLenOp) : InitText(text)
SpecOp == InitOp /\ [][Next]_vars

\* the spacing the text after an operator calls for
SpacingBefore(after) ==
    IF after # <<>> /\ after[1] \in recognized THEN "Joint" ELSE "Alone"

(***************************************************************************)
(* C4.  Every operator token of a lexed text is Joint exactly when the     *)
(* character right after it in the text, nothing skipped, is one of the    *)
(* operator characters, and Alone otherwise.  "->" lexes as '-' Joint and  *)
(* '>' Alone, "- >" as the same two characters, both Alone.                *)
(***************************************************************************)
C4_JointSpacing ==
    (Lexed /\ result.st = "Ok") =>
        LET a == Aligned(src, result.stream) IN
        /\ a.ok
        /\ \A k \in 1..Len(a.items) :
              a.items[k].tok.kind = "Op" =>
                 /\ a.items[k].tok.ch \in recognized
                 /\ a.items[k].tok.spacing = SpacingBefore(a.items[k].after)
        /\ src = Arrow => result.stream = <<Op("-", "Joint"), Op(">", "Alone")>>
        /\ src = SpacedArrow => result.stream = <<Op("-", "Alone"), Op(">", "Alone")>>

\* two operators with a blank between them were lexed
C4_Witness ==
    /\ Lexed
    /\ src = SpacedArrow
    /\ result.st = "Ok"
    /\ Len(result.stream) = 2
    /\ result.stream[1].kind = "Op"

(***************************************************************************)
(* SpecLifetime: from_str on a quote, a word and a short tail              *)
(***************************************************************************)
MaxTail == 1
StaticWord == <<"s", "t", "a", "t", "i", "c">>
OtherWords == {<<"a">>, <<"i">>, <<"i", "f", "s">>, <<"s", "t", "a", "t", "i">>, <<"_">>}
TailAlphabet == {"s", " ", "'"}
Quoted(w) == <<"'">> \o w
InitLifetime ==
    \E w \in KEYWORDS \cup OtherWords, tail \in Strings(TailAlphabet, MaxTail) :
        InitText(Quoted(w) \o tail)
SpecLifetime == InitLifetime /\ [][Next]_vars

\* the words of Lower, Upper, Digit and _ : all of their characters continue
\* an identifier
IsWord(w) == \A k \in 1..Len(w) : is_xid_continue(w[k])

(***************************************************************************)
(* C5 as stated.  'static lexes as a single Term whose text is static, and *)
(* a quote followed by any other keyword fails to lex.                     *)
(***************************************************************************)
C5_StaticWithoutQuote ==
    Lexed =>
        /\ src = Quoted(StaticWord) =>
              result = [st |-> "Ok", stream |-> <<Term(StaticWord)>>]
        /\ \A w \in KEYWORDS \ {StaticWord} : src = Quoted(w) => result.st = "Err"

(***************************************************************************)
(* C5, amended.  'static lexes as a single Term whose text is the whole    *)
(* span 'static, the quote included; a quote followed by any other keyword *)
(* fails to lex; a quote followed by a word that is no keyword lexes as a  *)
(* single Term whose text is the span with its quote.                      *)
(***************************************************************************)
C5_LifetimeKeyword ==
    Lexed =>
        /\ src = Quoted(StaticWord) =>
              result = [st |-> "Ok", stream |-> <<Term(Quoted(StaticWord))>>]
        /\ \A w \in KEYWORDS \ {StaticWord} :
              src = Quoted(w) => result = [st |-> "Err", stream |-> <<>>]
        /\ (/\ Len(src) > 1
            /\ src[1] = "'"
            /\ IsWord(Tail(src))
            /\ src[2] \notin Digit
            /\ Tail(src) \notin KEYWORDS) =>
              result = [st |-> "Ok", stream |-> <<Term(src)>>]

\* the text 'static was lexed
C5_Witness ==
    /\ Lexed
    /\ src = Quoted(StaticWord)
    /\ result.st = "Ok"

(***************************************************************************)
(* SpecNum: from_str on texts of digits, suffix letters, dots and blanks   *)
(***************************************************************************)
MaxLenNum == 4
NumAlphabet == {"1", "8", "e", "u", "x", ".", "_", " ", "+"}
InitNum == \E text \in Strings(NumAlphabet, MaxLenNum) : InitText(text)
SpecNum == InitNum /\ [][Next]_vars

(***************************************************************************)
(* C6.  A numeric literal ends at a word break: in a lexed text no literal *)
(* that starts with a digit is followed at once by a character that        *)
(* continues an identifier, and a text that starts with a digit and holds  *)
(* only such characters lexes as one Literal of the whole text or fails,   *)
(* never as a number and an identifier.  "1e" and "1u8x" fail, "1u8" is    *)
(* the single Literal 1u8.                                                 *)
(***************************************************************************)
C6_NumericWordBreak ==
    Lexed =>
        /\ result.st = "Ok" =>
              LET a == Aligned(src, result.stream) IN
              /\ a.ok
              /\ \A k \in 1..Len(a.items) :
                    (/\ a.items[k].tok.kind = "Literal"
                     /\ a.items[k].tok.text[1] \in Digit
                     /\ a.items[k].after # <<>>) =>
                       ~is_xid_continue(CharAt(a.items[k].after, 0))
        /\ (src # <<>> /\ src[1] \in Digit /\ IsWord(src)) =>
              \/ result = [st |-> "Err", stream |-> <<>>]
              \/ result = [st |-> "Ok", stream |-> <<Literal(src)>>]
        /\ src = <<"1", "e">> => result.st = "Err"
        /\ src = <<"1", "u", "8">> => result.st = "Ok"
        /\ src = <<"1", "u", "8", "x">> => result.st = "Err"

\* a suffixed integer followed at once by a letter was refused
C6_Witness ==
    /\ Lexed
    /\ src = <<"1", "u", "8", "x">>
    /\ result.st = "Err"

(***************************************************************************)
(* SpecUtf8: from_str on texts of quotes, prefixes and a two-byte character*)
(***************************************************************************)
MaxChars == 4
Utf8Alphabet == {<<"b">>, <<"r">>, <<"a">>, <<"'">>, <<"\"">>, <<"\\">>, <<"#">>, EAcute}
InitUtf8 == \E chars \in Strings(Utf8Alphabet, MaxChars) : InitText(Bytes(chars))
SpecUtf8 == InitUtf8 /\ [][Next]_vars

\* some character of the text takes more than one byte
HasMultiByte(s) == \E k \in 1..Len(s) : s[k] \in LeadBytes

(***************************************************************************)
(* C7.  No scanner panics: whatever the text, multi-byte characters at any *)
(* place included, from_str ends with a stream or with LexError, and never *)
(* slices the text off a character boundary.                               *)
(***************************************************************************)
C7_NoPanic == Lexed => result.st \in {"Ok", "Err"}

\* a character literal of a two-byte character was lexed
C7_Witness ==
    /\ Lexed
    /\ src = <<"'">> \o EAcute \o <<"'">>
    /\ result = [st |-> "Ok", stream |-> <<Literal(src)>>]

(***************************************************************************)
(* SpecDoc: from_str on texts of comment marks, a letter and newlines      *)
(***************************************************************************)
MaxLenDoc == 5
DocAlphabet == {"/", "!", "*", "\n", "a"}
DocExample == <<"/", "/", "/", "h", "i", "\n", "f", "n">>
PlainExample == <<"/", "/", "h", "i", "\n", "f", "n">>
InitDoc ==
    \E text \in Strings(DocAlphabet, MaxLenDoc) \cup {DocExample, PlainExample} :
        InitText(text)
SpecDoc == InitDoc /\ [][Next]_vars

\* the four doc comment forms and the two plain ones, at the start of s
IsLineDoc(s) ==
    \/ starts_with(s, <<"/", "/", "!">>)
    \/ starts_with(s, <<"/", "/", "/">>) /\ ~starts_with(s, <<"/", "/", "/", "/">>)
IsBlockDoc(s) ==
    \/ starts_with(s, <<"/", "*", "!">>)
    \/ starts_with(s, <<"/", "*", "*">>) /\ ~starts_with(s, <<"/", "*", "*", "*">>)
IsPlainLine(s) == starts_with(s, <<"/", "/">>) /\ ~IsLineDoc(s)
IsPlainBlock(s) == starts_with(s, <<"/", "*">>) /\ ~IsBlockDoc(s)

\* a line comment runs to the newline, or to the end of the text
LineEnd(s) == IF find(s, "\n") >= 0 THEN find(s, "\n") ELSE Len(s)

MaxLenRaw == 6
RawAlphabet == {"r", "#", "\"", "a"}
RawExample == <<"r", "#", "#", "\"", "a", "\"", "#", "\"", "#", "#">>
InitRaw == \E text \in Strings(RawAlphabet, MaxLenRaw) \cup {RawExample} : InitText(text)
SpecRaw == InitRaw /\ [][Next]_vars

\* the number of pounds of s from its i-th character on (1-based)
RECURSIVE PoundsAt(_, _)
PoundsAt(s, i) == IF i <= Len(s) /\ s[i] = "#" THEN 1 + PoundsAt(s, i + 1) ELSE 0

\* s opens a raw string: r, pounds, a quote
OpensRaw(s) ==
    /\ s # <<>>
    /\ s[1] = "r"
    /\ PoundsAt(s, 2) + 2 <= Len(s)
    /\ s[PoundsAt(s, 2) + 2] = "\""

\* the quotes after the opening one that as many pounds follow as opened s
ClosingQuotes(s) ==
    {j \in (PoundsAt(s, 2) + 3)..Len(s) :
        s[j] = "\"" /\ PoundsAt(s, j + 1) >= PoundsAt(s, 2)}

FirstClosingQuote(s) ==
    CHOOSE j \in ClosingQuotes(s) : \A k \in ClosingQuotes(s) : j <= k

(***************************************************************************)
(* C9.  Raw string pound matching: a text that opens a raw string with N   *)
(* pounds lexes first to the Literal that runs through the first quote     *)
(* followed by N pounds, and those pounds; quotes followed by fewer pounds *)
(* do not close it, and with no closing quote the text does not start with *)
(* a Literal at all.  r##"a"#"## is one Literal of the whole text.         *)
(***************************************************************************)
C9_RawStringPounds ==
    (Lexed /\ OpensRaw(src)) =>
        LET ts == token_stream(src) IN
        /\ ts.st = "Ok"
        /\ ClosingQuotes(src) # {} =>
              /\ ts.val # <<>>
              /\ ts.val[1] = Literal(Prefix(src, FirstClosingQuote(src) + PoundsAt(src, 2)))
        /\ ClosingQuotes(src) = {} =>
              (ts.val = <<>> \/ ts.val[1].kind # "Literal")
        /\ src = RawExample => result = [st |-> "Ok", stream |-> <<Literal(src)>>]

\* the example with a quote and one pound inside two pounds was lexed
C9_Witness ==
    /\ Lexed
    /\ src = RawExample
    /\ result.st = "Ok"
    /\ Len(result.stream) = 1

(***************************************************************************)
(* SpecIntern: Term::from called with any string on any thread, in any     *)
(* order                                                                   *)
(***************************************************************************)
Symbols == {<<"a">>, <<"b">>, <<"'", "a">>}
NextIntern == \E t \in Threads, s \in Symbols : TermFrom(t, s)
SpecIntern == InitText(<<>>) /\ [][NextIntern]_vars

(***************************************************************************)
(* C10 as stated.  Whatever threads call Term::from, in whatever order,    *)
(* two calls with equal strings return the same intern index.              *)
(***************************************************************************)
C10_SameHandleAcrossThreads ==
    \A x, y \in terms : x.string = y.string => x.intern = y.intern

(***************************************************************************)
(* C10, amended.  Two calls of Term::from made on the same thread return   *)
(* the same intern index exactly when their strings are equal, and the     *)
(* index names the string in that thread's interner; calls on different    *)
(* threads use different interners.                                        *)
(***************************************************************************)
C10_SameHandlePerThread ==
    /\ \A x, y \in terms :
          x.thread = y.thread => (x.string = y.string <=> x.intern = y.intern)
    /\ \A x \in terms : get(interners[x.thread], x.intern) = x.string

\* a string was interned a second time on a thread, after other strings
C10_Witness ==
    /\ last.some
    /\ ~last.pushed
    /\ last.term \in terms
    /\ Len(interners[last.term.thread].index_to_string) > 1

\* the two tables of an interner name each other's entries
Inverse(self) ==
    /\ DOMAIN self.string_to_index = {self.index_to_string[k] :
                                         k \in 1..Len(self.index_to_string)}
    /\ \A k \in 1..Len(self.index_to_string) :
          self.string_to_index[self.index_to_string[k]] = k - 1
    /\ \A k, j \in 1..Len(self.index_to_string) :
          self.index_to_string[k] = self.index_to_string[j] => k = j

\* every entry of the table before is the same entry of the table after
Extends(before, after) ==
    /\ Len(before.index_to_string) <= Len(after.index_to_string)
    /\ \A k \in 1..Len(before.index_to_string) :
          after.index_to_string[k] = before.index_to_string[k]
    /\ \A s \in DOMAIN before.string_to_index :
          /\ s \in DOMAIN after.string_to_index
          /\ after.string_to_index[s] = before.string_to_index[s]

(***************************************************************************)
(* C11.  The interning table is append-only: a call of intern removes and  *)
(* overwrites no entry of either table; every index returned so far is     *)
(* less than the length of its table, and get of it is still the string    *)
(* interned when it was returned; string_to_index and index_to_string stay *)
(* inverse of each other, distinct strings at distinct indices.            *)
(***************************************************************************)
C11_AppendOnly ==
    /\ [](\A t \in Threads : Inverse(interners[t]))
    /\ [](\A x \in terms :
             /\ x.intern < Len(interners[x.thread].index_to_string)
             /\ get(interners[x.thread], x.intern) = x.string)
    /\ [][/\ \A t \in Threads : Extends(interners[t], interners'[t])
          /\ terms \subseteq terms']_vars

\* a thread's table holds every symbol, the last of them just pushed, and
\* the Term of its first entry is still out
C11_Witness ==
    /\ last.some
    /\ last.pushed
    /\ Len(interners[last.term.thread].index_to_string) = Cardinality(Symbols)
    /\ \E x \in terms : x.thread = last.term.thread /\ x.intern = 0

(***************************************************************************)
(* SpecQuote: from_str on texts of quotes, letters, a digit, a backslash,  *)
(* an operator and blanks                                                  *)
(***************************************************************************)
MaxLenQuote == 4
QuoteAlphabet == {"'", "a", "i", "f", "1", "\\", "+", " "}
InitQuote == \E text \in Strings(QuoteAlphabet, MaxLenQuote) : InitText(text)
SpecQuote == InitQuote /\ [][Next]_vars

\* the text starts with a quote and a character that starts an identifier
QuoteIdent(s) == Len(s) >= 2 /\ s[1] = "'" /\ (is_xid_start(s[2]) \/ s[2] = "_")

\* the quote is closed right after that one character
ClosedAfterOne(s) == Len(s) >= 3 /\ s[3] = "'"

\* the length of the longest word (characters continuing an identifier) of
\* s from its i-th character on (1-based)
RECURSIVE WordLen(_, _)
WordLen(s, i) ==
    IF i <= Len(s) /\ is_xid_continue(s[i]) THEN 1 + WordLen(s, i + 1) ELSE 0

\* the quote and the word after it, and the word alone
LifetimeSpan(s) == SubSeq(s, 1, 1 + WordLen(s, 2))
LifetimeWord(s) == SubSeq(s, 2, 1 + WordLen(s, 2))

(***************************************************************************)
(* C12 as stated.  A quote followed by a character that starts an          *)
(* identifier and not closed after that one character is not taken as a    *)
(* char literal: the text lexes first to one lifetime Term.  Closed after  *)
(* the one character it lexes first to one char Literal.                   *)
(***************************************************************************)
C12_AlwaysLifetime ==
    (Lexed /\ QuoteIdent(src)) =>
        LET ts == token_stream(src) IN
        /\ ts.st = "Ok"
        /\ ts.val # <<>>
        /\ ts.val[1] = IF ClosedAfterOne(src) THEN Literal(Prefix(src, 3))
                       ELSE Term(LifetimeSpan(src))

(***************************************************************************)
(* C12, amended.  A quote followed by a character that starts an           *)
(* identifier and not closed after that one character is never taken as a  *)
(* char literal: the character scanner fails and the symbol scanner        *)
(* decides.  The text lexes first to one lifetime Term, the quote and the  *)
(* whole word, unless the word is a keyword other than static: then        *)
(* nothing lexes and from_str fails.  Closed after the one character the   *)
(* text lexes first to one char Literal, never to a lifetime.              *)
(***************************************************************************)
C12_CharOrLifetime ==
    (Lexed /\ QuoteIdent(src)) =>
        LET ts == token_stream(src) IN
        /\ ts.st = "Ok"
        /\ ClosedAfterOne(src) =>
              /\ ts.val # <<>>
              /\ ts.val[1] = Literal(Prefix(src, 3))
        /\ ~ClosedAfterOne(src) =>
              /\ character(src).st = "Err"
              /\ IF LifetimeWord(src) \in KEYWORDS \ {StaticWord}
                 THEN ts.val = <<>> /\ result = [st |-> "Err", stream |-> <<>>]
                 ELSE ts.val # <<>> /\ ts.val[1] = Term(LifetimeSpan(src))

\* a quote and a letter followed by a blank and more was lexed to a lifetime
C12_Witness ==
    /\ Lexed
    /\ src = <<"'", "a", " ", "a">>
    /\ result = [st |-> "Ok", stream |-> <<Term(<<"'", "a">>), Term(<<"a">>)>>]

(***************************************************************************)
(* SpecEscape: from_str on a quoted string, a char literal, a byte string  *)
(* and a byte literal around a body: a backslash and a short tail, or a    *)
(* few plain characters and line ends                                      *)
(***************************************************************************)
MaxEscTail == 4
MaxPlain == 2
EscAlphabet == {"x", "u", "{", "}", "4", "f", "q", "\r", "\n"}
PlainAlphabet == {"a", "\r", "\n"}
SixDigits == <<"u", "{", "4", "4", "4", "4", "4", "4", "}">>
SevenDigits == <<"u", "{", "4", "4", "4", "4", "4", "4", "4", "}">>
EscTails ==
    Strings(EscAlphabet, MaxEscTail)
    \cup {<<c>> : c \in SimpleEscapes}
    \cup {SixDigits, SevenDigits}
Bodies == {<<"\\">> \o tail : tail \in EscTails} \cup Strings(PlainAlphabet, MaxPlain)
Kinds == {"str", "chr", "bstr", "byte"}
Wrap(kind, body) ==
    IF kind = "str" THEN <<"\"">> \o body \o <<"\"">>
    ELSE IF kind = "chr" THEN <<"'">> \o body \o <<"'">>
    ELSE IF kind = "bstr" THEN <<"b", "\"">> \o body \o <<"\"">>
    ELSE <<"b", "'">> \o body \o <<"'">>
InitEscape == \E kind \in Kinds, body \in Bodies : InitText(Wrap(kind, body))
SpecEscape == InitEscape /\ [][Next]_vars

\* the number of hex digits, and of whitespace characters, of s from its
\* i-th character on (1-based)
RECURSIVE HexRun(_, _)
HexRun(s, i) == IF i <= Len(s) /\ s[i] \in HexDigit THEN 1 + HexRun(s, i + 1) ELSE 0
RECURSIVE BlankRun(_, _)
BlankRun(s, i) == IF i <= Len(s) /\ is_whitespace(s[i]) THEN 1 + BlankRun(s, i + 1) ELSE 0

\* the position after the character or escape that starts at the i-th
\* character of body, as the escapes are listed; 0 if it is none of them
ItemEnd(kind, body, i) ==
    IF body[i] = "\\"
    THEN IF i + 1 > Len(body) THEN 0
         ELSE IF body[i + 1] = "x"
         THEN (IF HexRun(body, i + 2) >= 2 THEN i + 4 ELSE 0)
         ELSE IF body[i + 1] = "u" /\ kind \in {"str", "chr"}
         THEN (IF /\ i + 2 <= Len(body)
                  /\ body[i + 2] = "{"
                  /\ HexRun(body, i + 3) \in 1..6
                  /\ i + 3 + HexRun(body, i + 3) <= Len(body)
                  /\ body[i + 3 + HexRun(body, i + 3)] = "}"
               THEN i + 4 + HexRun(body, i + 3) ELSE 0)
         ELSE IF body[i + 1] \in SimpleEscapes THEN i + 2
         ELSE IF body[i + 1] = "\n" /\ kind \in {"str", "bstr"}
         THEN i + 2 + BlankRun(body, i + 2)
         ELSE 0
    ELSE IF body[i] = "\r" /\ kind \in {"str", "bstr"}
    THEN (IF i + 1 <= Len(body) /\ body[i + 1] = "\n" THEN i + 2 ELSE 0)
    ELSE IF body[i] = "\"" /\ kind \in {"str", "bstr"} THEN 0
    ELSE i + 1

\* body from its i-th character on is a sequence of such characters and
\* escapes
RECURSIVE ValidFrom(_, _, _)
ValidFrom(kind, body, i) ==
    IF i > Len(body) THEN TRUE
    ELSE /\ ItemEnd(kind, body, i) # 0
         /\ ValidFrom(kind, body, ItemEnd(kind, body, i))

\* the kind and the body of a wrapped text
KindOf(s) ==
    IF s[1] = "\"" THEN "str"
    ELSE IF s[1] = "'" THEN "chr"
    ELSE IF s[2] = "\"" THEN "bstr"
    ELSE "byte"
BodyOf(s) == IF s[1] = "b" THEN SubSeq(s, 3, Len(s) - 1) ELSE SubSeq(s, 2, Len(s) - 1)

\* a string holds any number of them, a char or byte literal exactly one
ValidBody(kind, body) ==
    IF kind \in {"str", "bstr"} THEN ValidFrom(kind, body, 1)
    ELSE body # <<>> /\ ItemEnd(kind, body, 1) = Len(body) + 1

(***************************************************************************)
(* C13.  Escape validation: a quoted string, char literal, byte string or  *)
(* byte literal lexes as one Literal exactly when its body is made of      *)
(* plain characters and these escapes: \x and two hex digits; \u{...} with *)
(* 1 to 6 hex digits (string and char only); \n \r \t \\ \0 \' \";         *)
(* backslash-newline inside strings.  Any other escape, and a bare \r not  *)
(* followed by \n inside a string, makes the literal fail.                 *)
(***************************************************************************)
C13_ExactEscapes ==
    Lexed =>
        (result = [st |-> "Ok", stream |-> <<Literal(src)>>]
            <=> ValidBody(KindOf(src), BodyOf(src)))

\* a string with a six-digit \u escape was lexed
C13_Witness ==
    /\ Lexed
    /\ src = Wrap("str", <<"\\">> \o SixDigits)
    /\ result = [st |-> "Ok", stream |-> <<Literal(src)>>]

====
